---- MODULE Spec2Model ----
(***************************************************************************)
(* Grid bot for Bybit: the order-lifecycle state machine of runner.py      *)
(* (class GridBot) together with the pure grid functions of grid.py.       *)
(*                                                                         *)
(* Prices are decimal fixed-point numbers.  A grid price is an integer     *)
(* number of ticks of 10^-4 (build_grid never keeps more than 4 decimals). *)
(* The bounds given on the command line are integers in units of           *)
(* 10^-price_dec.  A Python string holding a number is the record          *)
(* [num |-> TRUE, val |-> ticks]; str() of a float and float() of such a   *)
(* string are Str and Float below.                                         *)
(*                                                                         *)
(* The model starts from a constructed GridBot: in live mode self.api is   *)
(* a BybitAPI of bybit_api.py (runner.py:73 calls BybitAPI() without the   *)
(* two arguments that bybit_api.py:49 requires) and the closure            *)
(* on_order_update is the handler the order stream invokes.                *)
(***************************************************************************)
EXTENDS Integers, Sequences, FiniteSets, TLC

\* ------------------------------------------------------------------ bounds
\* largest number of order events (handler invocations) in one behaviour
MaxEvents == 3

\* ------------------------------------------------------- program constants
\* build_grid keeps at most 4 decimals (grid.py:48)
PriceScale == 4
\* price used for BTCUSDT when no ticker is read (runner.py:200, runner.py:205)
BtcTestPrice == 103932

None == [kind |-> "None"]

RECURSIVE Pow10(_)
Pow10(n) == IF n = 0 THEN 1 ELSE 10 * Pow10(n - 1)

\* round a / b (a >= 0, b > 0) to the nearest integer, ties to even: np.round
RoundHalfEven(a, b) ==
    LET q == a \div b
        r == a % b
    IN  IF 2 * r < b THEN q
        ELSE IF 2 * r > b THEN q + 1
        ELSE IF q % 2 = 0 THEN q ELSE q + 1

\* str(x) of a float x given in ticks
Str(ticks) == [num |-> TRUE, val |-> ticks]
\* float(s); raises ValueError (modelled by its guard IsNumber) on other text
IsNumber(s) == s.num
Float(s) == s.val

\* ---------------------------------------------------------------- grid.py
\* number of decimals kept, chosen by the range (grid.py:35-48)
grid_decimals(low, high, dec) ==
    LET price_range == high - low
    IN  IF price_range > 10000 * Pow10(dec) THEN 0
        ELSE IF price_range > 1000 * Pow10(dec) THEN 1
        ELSE IF price_range > 100 * Pow10(dec) THEN 2
        ELSE 4

\* a build_grid that refuses low > high only, and so accepts low = high
build_grid_equal_bounds(low, high, grids, dec) ==
    IF low > high THEN <<"ValueError">>
    ELSE IF grids < 2 THEN <<"ValueError">>
    ELSE LET d == grid_decimals(low, high, dec)
             num(i) == low * grids + i * (high - low)
             rounded(i) == IF d <= dec
                           THEN RoundHalfEven(num(i), grids * Pow10(dec - d))
                           ELSE RoundHalfEven(num(i) * Pow10(d - dec), grids)
         IN  [k \in 1..(grids + 1) |-> rounded(k - 1) * Pow10(PriceScale - d)]

\* build_grid(low, high, grids): "ValueError" or the tuple of grids+1 prices
build_grid(low, high, grids, dec) ==
    IF low >= high THEN <<"ValueError">>
    ELSE IF grids < 2 THEN <<"ValueError">>
    ELSE LET d == grid_decimals(low, high, dec)
             \* np.linspace: low + i * (high - low) / grids, as a fraction over grids
             num(i) == low * grids + i * (high - low)
             rounded(i) == IF d <= dec
                           THEN RoundHalfEven(num(i), grids * Pow10(dec - d))
                           ELSE RoundHalfEven(num(i) * Pow10(d - dec), grids)
         IN  [k \in 1..(grids + 1) |-> rounded(k - 1) * Pow10(PriceScale - d)]

\* price < mid_price, mid_price being the fraction mid.num / mid.den
PriceBelow(ticks, mid) == ticks * mid.den < mid.num * Pow10(PriceScale)
PriceAbove(ticks, mid) == ticks * mid.den > mid.num * Pow10(PriceScale)

NewOrderDict(side, ticks, qty) ==
    [side |-> side, price |-> Str(ticks), qty |-> Str(qty), order_type |-> "Limit"]

RECURSIVE SelectOrders(_, _, _, _, _)
SelectOrders(grid_prices, mid_price, qty, side, k) ==
    IF k > Len(grid_prices) THEN <<>>
    ELSE LET price == grid_prices[k]
             take == IF side = "Buy" THEN PriceBelow(price, mid_price)
                     ELSE PriceAbove(price, mid_price)
             rest == SelectOrders(grid_prices, mid_price, qty, side, k + 1)
         IN  IF take THEN <<NewOrderDict(side, price, qty)>> \o rest ELSE rest

\* calculate_initial_orders: <<buy_orders, sell_orders>>
calculate_initial_orders(grid_prices, mid_price, qty) ==
    << SelectOrders(grid_prices, mid_price, qty, "Buy", 1),
       SelectOrders(grid_prices, mid_price, qty, "Sell", 1) >>

Abs(x) == IF x < 0 THEN -x ELSE x

\* the index of the highest level not above the price instead of the nearest
find_level_below(price, grid_prices) ==
    LET below == { i \in 0..(Len(grid_prices) - 1) : grid_prices[i + 1] <= price }
    IN  IF below = {} THEN 0 ELSE CHOOSE i \in below : \A j \in below : j <= i

\* an argmin that returns the last index of a minimum
find_last_grid_level(price, grid_prices) ==
    LET n == Len(grid_prices)
        dist(i) == Abs(grid_prices[i + 1] - price)
    IN  CHOOSE i \in 0..(n - 1) :
            /\ \A j \in 0..(n - 1) : dist(i) <= dist(j)
            /\ \A j \in (i + 1)..(n - 1) : dist(j) > dist(i)

\* np.abs(grid_prices - price).argmin(): the first 0-based index of a minimum
find_grid_level(price, grid_prices) ==
    LET n == Len(grid_prices)
        dist(i) == Abs(grid_prices[i + 1] - price)
    IN  CHOOSE i \in 0..(n - 1) :
            /\ \A j \in 0..(n - 1) : dist(i) <= dist(j)
            /\ \A j \in 0..(i - 1) : dist(j) > dist(i)

\* a scan that never finds the level taken
NoLevelTaken(active_list, mirror_price, mirror_side) == FALSE

\* the scan of grid.py:125-130 over the list of active orders
MirrorLevelTaken(active_list, mirror_price, mirror_side) ==
    \E k \in 1..Len(active_list) :
        /\ Float(active_list[k].price) = mirror_price
        /\ active_list[k].side = mirror_side

\* a mirror computed at the level of the fill itself instead of the adjacent one
MirrorAtSameLevel(filled_order, grid_prices, qty, active_list) ==
    IF ~IsNumber(filled_order.price) THEN None
    ELSE LET idx == find_grid_level(Float(filled_order.price), grid_prices)
             mirror_side == IF filled_order.side = "Buy" THEN "Sell" ELSE "Buy"
         IN  [kind |-> "order"] @@ NewOrderDict(mirror_side, grid_prices[idx + 1], qty)

\* calculate_mirror_order: None or the mirror order dict
calculate_mirror_order(filled_order, grid_prices, qty, active_list) ==
    IF ~IsNumber(filled_order.price) THEN None     \* except Exception: return None
    ELSE LET price == Float(filled_order.price)
             side == filled_order.side
             idx == find_grid_level(price, grid_prices)
             mirror_side == IF side = "Buy" THEN "Sell" ELSE "Buy"
             idx_new == IF side = "Buy" THEN idx + 1 ELSE idx - 1
         IN  IF idx_new < 0 \/ idx_new >= Len(grid_prices) THEN None
             ELSE LET mirror_price == grid_prices[idx_new + 1]
                  IN  IF MirrorLevelTaken(active_list, mirror_price, mirror_side)
                      THEN None
                      ELSE [kind |-> "order"] @@ NewOrderDict(mirror_side, mirror_price, qty)

\* --------------------------------------------------------------- GridBot
VARIABLES
    symbol, low_price, high_price, grid_levels, price_dec, qty, test_mode,
    grid_prices, active_orders, is_running,
    db_open, fills,
    exchange,
    pc, ladder, ladder_i, price_fetch,
    sim_orders, sim_i,
    cancel_requests, ws_open,
    events, placements, deliveries, last,
    call, ret,
    wsc

params == <<symbol, low_price, high_price, grid_levels, price_dec, qty, test_mode, grid_prices,
            call, ret, wsc>>
startv == <<pc, ladder, ladder_i, price_fetch>>
simv == <<sim_orders, sim_i>>
stopv == <<cancel_requests, ws_open>>
vars == <<params, active_orders, is_running, db_open, fills, exchange, startv, simv, stopv,
          events, placements, deliveries, last>>

\* command lines the model starts from: explicit bounds, low < high, grids >= 2
\* and qty > 0, as checked by runner.py:537-547
Ranges ==
    { [low |-> 10, high |-> 30, grids |-> 2, dec |-> 0],
      [low |-> 10, high |-> 40, grids |-> 3, dec |-> 0],
      [low |-> 1, high |-> 3, grids |-> 2, dec |-> 5] }
Symbols == {"BTCUSDT", "ETHUSDT"}

\* order ids: f"test_order_{i}", f"test_mirror_{order_id}" and the ids the
\* exchange assigns; depth counts the "test_mirror_" prefixes
TestOrderId(i) == [base |-> i, depth |-> 0]
TestMirrorId(order_id) == [order_id EXCEPT !.depth = @ + 1]
ExchangeOrderId(n) == [base |-> 100 + n, depth |-> 0]
UnknownOrderId == [base |-> 99, depth |-> 0]

\* what the last operation did (history, read by the properties only)
LastRec(op, order_id, status, tracked, was_new, mirror, placed, trade) ==
    [op |-> op, order_id |-> order_id, status |-> status, tracked |-> tracked,
     was_new |-> was_new, mirror |-> mirror, placed |-> placed, trade |-> trade]
NoCall == LastRec("none", UnknownOrderId, "none", FALSE, FALSE, None, "no", FALSE)

\* the arguments and the result of a call of a function of grid.py (used by
\* the specifications that exercise the pure functions)
NoArgs == [fn |-> "none"]
Pending == [kind |-> "pending"]

\* BybitWebsocket.__init__: ws_client.py:36-38 (10 attempts) and
\* ws_client_new.py:37-39 (5 attempts), reconnect_delay = 5 in both
max_reconnect_attempts(client) == IF client = "ws_client" THEN 10 ELSE 5
reconnect_delay(client) == 5
NewWebsocket(client) ==
    [client |-> client, reconnect_attempts |-> 0, pc |-> "idle", connected |-> FALSE,
     waits |-> << >>, connects |-> 0]

\* GridBot.__init__ (runner.py:64-96)
Init ==
    /\ symbol \in Symbols
    /\ test_mode \in BOOLEAN
    /\ \E r \in Ranges :
          /\ low_price = r.low
          /\ high_price = r.high
          /\ grid_levels = r.grids
          /\ price_dec = r.dec
          /\ grid_prices = build_grid(r.low, r.high, r.grids, r.dec)
    /\ qty = 1
    /\ active_orders = << >>
    /\ is_running = FALSE
    /\ db_open = TRUE
    /\ fills = << >>
    /\ exchange = << >>
    /\ pc = "created"
    /\ ladder = << >>
    /\ ladder_i = 0
    /\ price_fetch = "none"
    /\ sim_orders = << >>
    /\ sim_i = 0
    /\ cancel_requests = {}
    /\ ws_open = FALSE
    /\ events = 0
    /\ placements = << >>
    /\ deliveries = << >>
    /\ last = NoCall
    /\ call = NoArgs
    /\ ret = Pending
    /\ wsc = NewWebsocket("ws_client")

\* how _get_current_price can end: in test mode no request is made; in live
\* mode get_ticker raises (the exchange cannot be reached or refuses), or it
\* returns data["list"][0] (bybit_api.py:193) and ticker["result"] raises
\* KeyError.  Both live outcomes are caught by the except of runner.py:196-201.
PriceFetchOutcomes == IF test_mode THEN {"test"} ELSE {"raised", "no_result"}

\* _get_current_price (runner.py:183-211) as the fraction num / den: the
\* except branch of live mode returns the same values as test mode.
get_current_price ==
    IF symbol = "BTCUSDT" THEN [num |-> BtcTestPrice, den |-> 1]
    ELSE [num |-> high_price + low_price, den |-> 2 * Pow10(price_dec)]

ActiveOrder(order, status) ==
    [side |-> order.side, price |-> order.price, qty |-> order.qty, status |-> status]

\* the bag b with one more copy of x (rows of a table, entries of a log)
BagAdd(b, x) ==
    [k \in (DOMAIN b) \cup {x} |-> IF k \in DOMAIN b
                                    THEN (IF k = x THEN b[k] + 1 ELSE b[k]) ELSE 1]
BagCount(b, x) == IF x \in DOMAIN b THEN b[x] ELSE 0

\* the dict d with d[key] = value
DictSet(d, key, value) ==
    [k \in (DOMAIN d) \cup {key} |-> IF k = key THEN value ELSE d[k]]

\* [order for order in self.active_orders.values() if order["status"] == "New"]
RECURSIVE SetToSeq(_)
SetToSeq(S) == IF S = {} THEN << >>
               ELSE LET x == CHOOSE y \in S : TRUE IN <<x>> \o SetToSeq(S \ {x})
NewOrdersList(orders) ==
    LET keys == SetToSeq({ j \in DOMAIN orders : orders[j].status = "New" })
    IN  [k \in 1..Len(keys) |-> orders[keys[k]]]

\* ------------------------------------------------------------ bybit_api.py
\* what place_order returns when the exchange accepts the order: _request
\* returns _handle_response(response), the "result" object of the reply
\* (bybit_api.py:131, bybit_api.py:240); a refusal raises BybitAPIError
place_order(order_id) == [orderId |-> order_id]

\* response.get("retCode") == 0 (runner.py:138, runner.py:395)
RetCodeIsZero(response) ==
    /\ "retCode" \in DOMAIN response
    /\ response.retCode = 0

NextExchangeOrderId == ExchangeOrderId(Cardinality(DOMAIN exchange) + 1)

Placement(cause, order, how) ==
    [cause |-> cause, side |-> order.side, price |-> Float(order.price), how |-> how]
LadderCause == [base |-> 0, depth |-> -1]

\* ------------------------------------------------- GridBot.start (100-181)
StartBegin ==
    /\ pc = "created"
    /\ ~is_running
    /\ is_running' = TRUE
    /\ LET orders == calculate_initial_orders(grid_prices, get_current_price, qty)
       IN  ladder' = orders[1] \o orders[2]
    /\ ladder_i' = 0
    /\ price_fetch' \in PriceFetchOutcomes
    /\ pc' = "placing"
    /\ last' = NoCall
    /\ UNCHANGED <<params, active_orders, db_open, fills, exchange, simv, stopv, events,
                   placements, deliveries>>

\* one iteration of the loop of runner.py:129-149 (live) or 152-161 (test)
StartPlaceOrder ==
    /\ pc = "placing"
    /\ ladder_i < Len(ladder)
    /\ LET order == ladder[ladder_i + 1]
       IN  IF test_mode
           THEN /\ active_orders' = DictSet(active_orders, TestOrderId(ladder_i),
                                            ActiveOrder(order, "New"))
                /\ placements' = BagAdd(placements, Placement(LadderCause, order, "simulated"))
                /\ ladder_i' = ladder_i + 1
                /\ UNCHANGED <<exchange, pc, is_running>>
           ELSE \E accepted \in BOOLEAN :
                  IF accepted
                  THEN LET order_id == NextExchangeOrderId
                           response == place_order(order_id)
                       IN  /\ exchange' = DictSet(exchange, order_id, ActiveOrder(order, "New"))
                           /\ placements' = BagAdd(placements,
                                                   Placement(LadderCause, order, "accepted"))
                           /\ active_orders' =
                                 IF RetCodeIsZero(response)
                                 THEN DictSet(active_orders, order_id, ActiveOrder(order, "New"))
                                 ELSE active_orders
                           /\ ladder_i' = ladder_i + 1
                           /\ UNCHANGED <<pc, is_running>>
                  ELSE \* BybitAPIError leaves the loop: except branch of 177-181,
                       \* where stop() returns at once because is_running is False
                       /\ placements' = BagAdd(placements,
                                               Placement(LadderCause, order, "rejected"))
                       /\ is_running' = FALSE
                       /\ pc' = "failed"
                       /\ UNCHANGED <<exchange, active_orders, ladder_i>>
    /\ last' = NoCall
    /\ UNCHANGED <<params, db_open, fills, ladder, price_fetch, simv, stopv, events,
                   deliveries>>

RECURSIVE TestOrderItems(_, _)
TestOrderItems(orders, i) ==
    IF TestOrderId(i) \notin DOMAIN orders THEN << >>
    ELSE <<[order_id |-> TestOrderId(i), order |-> orders[TestOrderId(i)]]>>
         \o TestOrderItems(orders, i + 1)

\* the end of start (163-175): the stream handler is subscribed (live) or the
\* thread running simulate_order_execution takes list(self.active_orders.items()).
\* A failure to open the stream is logged by start_websocket (304-305) and
\* start goes on.
StartFinish ==
    /\ pc = "placing"
    /\ ladder_i = Len(ladder)
    /\ pc' = "running"
    /\ IF test_mode THEN ws_open' = FALSE ELSE ws_open' \in BOOLEAN
    /\ UNCHANGED cancel_requests
    /\ sim_orders' = IF test_mode THEN TestOrderItems(active_orders, 0) ELSE << >>
    /\ sim_i' = 0
    /\ last' = NoCall
    /\ UNCHANGED <<params, active_orders, is_running, db_open, fills, exchange, ladder,
                   ladder_i, price_fetch, events, placements, deliveries>>

\* --------------------------------- GridBot.handle_order_execution (338-420)
NewOrderIds(orders) == { k \in DOMAIN orders : orders[k].status = "New" }

\* a membership test that accepts every order id
AnyOrderIsActive(order_id, orders) == TRUE

\* order_id in self.active_orders (runner.py:349)
is_active_order(order_id, orders) == order_id \in DOMAIN orders

\* a handler that deletes the filled order from the table
MarkFilledRemoves(orders, order_id) ==
    [k \in (DOMAIN orders) \ {order_id} |-> orders[k]]

\* self.active_orders[order_id]["status"] = "Filled" (runner.py:354)
MarkFilled(orders, order_id) ==
    [k \in DOMAIN orders |-> IF k = order_id THEN [orders[k] EXCEPT !.status = "Filled"]
                             ELSE orders[k]]

\* db_ok: self.db.add_trade commits (it raises on a closed or failing
\* connection); accepted: the exchange accepts the mirror order
handle_order_execution(filled_order, db_ok, accepted, op) ==
    LET order_id == filled_order.order_id
    IN  IF ~is_active_order(order_id, active_orders)
        THEN \* 349-351: unknown order
             /\ last' = LastRec(op, order_id, filled_order.status, FALSE, FALSE, None,
                                "no", FALSE)
             /\ UNCHANGED <<active_orders, fills, exchange, placements, deliveries>>
        ELSE LET was_new == order_id \in NewOrderIds(active_orders)
                 marked == MarkFilled(active_orders, order_id)
                 trade_ok == /\ IsNumber(filled_order.price)
                             /\ IsNumber(filled_order.qty)
                             /\ db_open
                             /\ db_ok
                 trade == [order_id |-> order_id, side |-> filled_order.side,
                           price |-> Float(filled_order.price),
                           qty |-> Float(filled_order.qty)]
                 mirror_order == calculate_mirror_order(filled_order, grid_prices, qty,
                                                        NewOrdersList(marked))
             IN  /\ deliveries' = BagAdd(deliveries, order_id)
                 /\ IF ~trade_ok
                    THEN \* 364-370 raised: except branch of 419-420
                         /\ active_orders' = marked
                         /\ last' = LastRec(op, order_id, filled_order.status, TRUE,
                                            was_new, None, "no", FALSE)
                         /\ UNCHANGED <<fills, exchange, placements>>
                    ELSE /\ fills' = BagAdd(fills, trade)
                         /\ IF mirror_order = None
                            THEN \* 381-383
                                 /\ active_orders' = marked
                                 /\ last' = LastRec(op, order_id, filled_order.status,
                                                    TRUE, was_new, None, "no", TRUE)
                                 /\ UNCHANGED <<exchange, placements>>
                            ELSE IF test_mode
                            THEN \* 408-417
                                 /\ active_orders' = DictSet(marked, TestMirrorId(order_id),
                                                             ActiveOrder(mirror_order, "New"))
                                 /\ placements' = BagAdd(placements,
                                        Placement(order_id, mirror_order, "simulated"))
                                 /\ last' = LastRec(op, order_id, filled_order.status, TRUE,
                                            was_new, mirror_order, "simulated", TRUE)
                                 /\ UNCHANGED exchange
                            ELSE IF accepted
                            THEN \* 387-406
                                 LET new_order_id == NextExchangeOrderId
                                     response == place_order(new_order_id)
                                 IN  /\ exchange' = DictSet(exchange, new_order_id,
                                                            ActiveOrder(mirror_order, "New"))
                                     /\ placements' = BagAdd(placements,
                                            Placement(order_id, mirror_order, "accepted"))
                                     /\ active_orders' =
                                           IF RetCodeIsZero(response)
                                           THEN DictSet(marked, new_order_id,
                                                        ActiveOrder(mirror_order, "New"))
                                           ELSE marked
                                     /\ last' = LastRec(op, order_id, filled_order.status, TRUE,
                                            was_new, mirror_order, "accepted", TRUE)
                            ELSE \* place_order raised: except branch of 419-420
                                 /\ active_orders' = marked
                                 /\ placements' = BagAdd(placements,
                                        Placement(order_id, mirror_order, "rejected"))
                                 /\ last' = LastRec(op, order_id, filled_order.status, TRUE,
                                            was_new, mirror_order, "rejected", TRUE)
                                 /\ UNCHANGED exchange

\* the fill event of an order: the order's own side, price and quantity
FilledOrder(order_id, order) ==
    [order_id |-> order_id, side |-> order.side, price |-> order.price,
     qty |-> order.qty, status |-> "Filled"]

FillEvents ==
    { FilledOrder(k, active_orders[k]) : k \in DOMAIN active_orders }
    \cup { FilledOrder(UnknownOrderId, NewOrderDict(sd, grid_prices[1], qty)) :
             sd \in {"Buy", "Sell"} }

\* an order event reaches the engine: handle_order_execution(filled_order)
HandleOrderExecution ==
    /\ pc \in {"running", "stopped"}
    /\ events < MaxEvents
    /\ events' = events + 1
    /\ \E filled_order \in FillEvents, db_ok \in BOOLEAN, accepted \in BOOLEAN :
          handle_order_execution(filled_order, db_ok, accepted, "handle_order_execution")
    /\ UNCHANGED <<params, is_running, db_open, startv, simv, stopv>>

\* one iteration of simulate_order_execution (307-336): every second order of
\* the snapshot is reported filled.  The loop runs in the thread started at
\* runner.py:172, while self.db.conn was opened by the constructing thread
\* with sqlite3's default check_same_thread (db.py:33): add_trade raises
\* ProgrammingError there, so db_ok is FALSE.
SimulateOrderExecution ==
    /\ test_mode
    /\ pc \in {"running", "stopped"}
    /\ sim_i < Len(sim_orders)
    /\ events < MaxEvents
    /\ events' = events + 1
    /\ sim_i' = sim_i + 2
    /\ LET item == sim_orders[sim_i + 1]
       IN  handle_order_execution(FilledOrder(item.order_id, item.order), FALSE, FALSE,
                                  "simulate_order_execution")
    /\ UNCHANGED <<params, is_running, db_open, startv, sim_orders, stopv>>

\* ------------------------- GridBot.start_websocket.on_order_update (268-295)
OrderStatuses == {"New", "Filled", "Cancelled"}

Message(kind, sym, order_id, status, order) ==
    [kind |-> kind, symbol |-> sym, orderId |-> order_id, orderStatus |-> status,
     side |-> order.side, price |-> order.price, qty |-> order.qty]

\* the messages the order stream may deliver: an empty message, one without
\* "data", and a status update of any order of the account
Messages ==
    LET known == (DOMAIN exchange) \cup (DOMAIN active_orders)
        some == NewOrderDict("Buy", grid_prices[1], qty)
        order_of(k) == IF k \in DOMAIN active_orders THEN active_orders[k]
                       ELSE IF k \in DOMAIN exchange THEN exchange[k] ELSE some
    IN  { Message("empty", symbol, UnknownOrderId, "New", some),
          Message("nodata", symbol, UnknownOrderId, "New", some) }
        \cup { Message("data", sym, k, st, order_of(k)) :
                 sym \in {symbol, "OTHER"}, k \in known \cup {UnknownOrderId},
                 st \in OrderStatuses }

\* the test of 279-281
is_own_filled_order(data) ==
    /\ data.symbol = symbol
    /\ is_active_order(data.orderId, active_orders)
    /\ data.orderStatus = "Filled"

on_order_update(message, db_ok, accepted) ==
    IF message.kind = "data" /\ is_own_filled_order(message)
    THEN handle_order_execution(
             [order_id |-> message.orderId, side |-> message.side, price |-> message.price,
              qty |-> message.qty, status |-> "Filled"],
             db_ok, accepted, "on_order_update")
    ELSE /\ last' = LastRec("on_order_update", message.orderId, message.orderStatus,
                            FALSE, FALSE, None, "no", FALSE)
         /\ UNCHANGED <<active_orders, fills, exchange, placements, deliveries>>

\* the stream delivers a message while it is open
OnOrderUpdate ==
    /\ ~test_mode
    /\ ws_open
    /\ pc \in {"running", "stopped"}
    /\ events < MaxEvents
    /\ events' = events + 1
    /\ \E message \in Messages, db_ok \in BOOLEAN, accepted \in BOOLEAN :
          on_order_update(message, db_ok, accepted)
    /\ UNCHANGED <<params, is_running, db_open, startv, simv, stopv>>

\* the stream is lost for good: the reconnect attempts of the client are used
\* up and _try_reconnect returns after logging (ws_client.py:154-156); no
\* field of the bot is touched and no handler is called
StreamLost ==
    /\ ~test_mode
    /\ ws_open
    /\ pc = "running"
    /\ ws_open' = FALSE
    /\ UNCHANGED <<params, active_orders, is_running, db_open, fills, exchange, startv, simv,
                   cancel_requests, events, placements, deliveries, last>>

\* the exchange fills a ladder order it has accepted while start() is still
\* in the loop of runner.py:129-149 (the stream is opened only at runner.py:166)
FillDuringStart ==
    /\ ~test_mode
    /\ pc = "placing"
    /\ \E k \in DOMAIN exchange :
          /\ exchange[k].status = "New"
          /\ exchange' = [exchange EXCEPT ![k].status = "Filled"]
    /\ UNCHANGED <<params, active_orders, is_running, db_open, fills, startv, simv, stopv,
                   events, placements, deliveries, last>>

\* ---------------------------------------------------- GridBot.stop (422-457)
\* called by signal_handler (506-514) and by the main loop's handlers
Stop ==
    /\ is_running
    /\ is_running' = FALSE
    /\ pc' = IF pc = "placing" THEN "exited" ELSE "stopped"   \* sys.exit (514)
    /\ IF test_mode
       THEN UNCHANGED <<exchange, cancel_requests>>
       ELSE \* 437-443: cancel_order for every New order, a failure is logged
            /\ cancel_requests' = cancel_requests \cup NewOrderIds(active_orders)
            /\ \E cancelled \in SUBSET NewOrderIds(active_orders) :
                  exchange' = [k \in DOMAIN exchange |->
                                 IF k \in cancelled
                                 THEN [exchange[k] EXCEPT !.status = "Cancelled"]
                                 ELSE exchange[k]]
    \* 446-447: self.ws.close() is a coroutine function (ws_client.py:247); the
    \* coroutine it returns is never awaited, so the connection stays as it is
    /\ UNCHANGED ws_open
    /\ db_open' = FALSE
    /\ last' = NoCall
    /\ UNCHANGED <<params, active_orders, fills, ladder, ladder_i, price_fetch, simv,
                   events, placements, deliveries>>

Next ==
    \/ StartBegin
    \/ StartPlaceOrder
    \/ StartFinish
    \/ HandleOrderExecution
    \/ SimulateOrderExecution
    \/ OnOrderUpdate
    \/ StreamLost
    \/ FillDuringStart
    \/ Stop

Spec == Init /\ [][Next]_vars

\* start() runs to its end once called and the simulation thread runs once
\* started; signals, stream messages and the exchange are not scheduled by the
\* program
FairSpec ==
    /\ Spec
    /\ WF_vars(StartPlaceOrder)
    /\ WF_vars(StartFinish)
    /\ WF_vars(SimulateOrderExecution)

\* ------------------------------------- calculate_mirror_order on its own
\* the grids of the examples: [1000, 1200, .., 2000] and [10, 20, 30, 40]
Grid6 == build_grid(1000, 2000, 5, 0)
Grid4 == build_grid(10, 40, 3, 0)
MirrorGrids == {Grid6, Grid4}
Ticks(x) == x * Pow10(PriceScale)
NotANumber == [num |-> FALSE, val |-> 0]

\* fill prices: every grid price, every midpoint of two adjacent levels, one
\* tick outside each end of the ladder, and a text that is not a number
FillPrices(grid) ==
    { Str(grid[k]) : k \in 1..Len(grid) }
    \cup { Str((grid[k] + grid[k + 1]) \div 2) : k \in 1..(Len(grid) - 1) }
    \cup { Str(grid[1] - 1), Str(grid[Len(grid)] + 1), NotANumber }

\* lists of active orders: none, or one New order at a grid price
ActiveLists(grid, q) ==
    { << >> } \cup { << ActiveOrder(NewOrderDict(sd, grid[k], q), "New") >> :
                        sd \in {"Buy", "Sell"}, k \in 1..Len(grid) }

MirrorCalls(grid, q) ==
    { [fn |-> "calculate_mirror_order",
       filled_order |-> [side |-> sd, price |-> pr, qty |-> Str(q)],
       active_orders |-> al] :
         sd \in {"Buy", "Sell"}, pr \in FillPrices(grid), al \in ActiveLists(grid, q) }

InitMirror ==
    /\ symbol = "ETHUSDT"
    /\ test_mode = TRUE
    /\ low_price = 0
    /\ high_price = 0
    /\ grid_levels = 0
    /\ price_dec = 0
    /\ grid_prices \in MirrorGrids
    /\ qty \in {1, 2}
    /\ call \in MirrorCalls(grid_prices, qty)
    /\ ret = Pending
    /\ wsc = NewWebsocket("ws_client")
    /\ active_orders = << >>
    /\ is_running = FALSE
    /\ db_open = TRUE
    /\ fills = << >>
    /\ exchange = << >>
    /\ pc = "created"
    /\ ladder = << >>
    /\ ladder_i = 0
    /\ price_fetch = "none"
    /\ sim_orders = << >>
    /\ sim_i = 0
    /\ cancel_requests = {}
    /\ ws_open = FALSE
    /\ events = 0
    /\ placements = << >>
    /\ deliveries = << >>
    /\ last = NoCall

\* one call calculate_mirror_order(filled_order, grid_prices, qty, active_orders)
CalculateMirrorOrder ==
    /\ call.fn = "calculate_mirror_order"
    /\ ret = Pending
    /\ ret' = calculate_mirror_order(call.filled_order, grid_prices, qty, call.active_orders)
    /\ UNCHANGED <<symbol, low_price, high_price, grid_levels, price_dec, qty, test_mode,
                   grid_prices, call, active_orders, is_running, db_open, fills, exchange,
                   startv, simv, stopv, events, placements, deliveries, last, wsc>>

NextMirror == CalculateMirrorOrder

SpecMirror == InitMirror /\ [][NextMirror]_vars

\* ------------------------------ BybitAPI._request / BybitAsyncAPI._request
\* config.py:21
MAX_RETRIES == 5
\* config.py:33-40
RETRY_ERROR_CODES == {10002, 10006, 10018, 10004, -1, -3}
\* wait_exponential(multiplier=1, min=1, max=60) (bybit_api.py:135)
WaitMultiplier == 1
WaitMin == 1
WaitMax == 60

\* BybitAPIError(status_code, message, error_code=None): has_code is FALSE
\* when error_code is None
BybitAPIError(status_code, has_code, error_code) ==
    [type |-> "BybitAPIError", status_code |-> status_code, has_code |-> has_code,
     error_code |-> error_code]
\* tenacity's RetryError, which wraps the last attempt
RetryError(last_attempt) ==
    [type |-> "RetryError", status_code |-> last_attempt.status_code,
     has_code |-> FALSE, error_code |-> 0]

\* a retry predicate that retries after every error
AlwaysRetryable(exception) == TRUE

\* is_bybit_error_retryable (bybit_api.py:29-43, bybit_api_async.py:31-45)
is_bybit_error_retryable(exception) ==
    IF exception.type # "BybitAPIError" THEN FALSE
    ELSE exception.has_code /\ exception.error_code \in RETRY_ERROR_CODES

\* what one HTTP exchange can give: a reply with a status and a retCode, or a
\* transport failure (requests.RequestException, aiohttp.ClientError)
Reply(http, retCode) == [kind |-> "reply", http |-> http, retCode |-> retCode]
Transport == [kind |-> "transport", http |-> 0, retCode |-> 0]
Replies ==
    { Reply(200, c) : c \in {0, 10001} \cup RETRY_ERROR_CODES }
    \cup { Reply(500, 10002), Reply(500, 0), Transport }

\* the body of a response: a JSON object, with or without the keys retCode
\* and result, or a text that is not JSON
JsonBody(has_retCode, retCode, has_result, result) ==
    [json |-> TRUE, has_retCode |-> has_retCode, retCode |-> retCode,
     has_result |-> has_result, result |-> result]
NotJson ==
    [json |-> FALSE, has_retCode |-> FALSE, retCode |-> 0, has_result |-> FALSE, result |-> "{}"]

\* the return value of _handle_response: data.get("result", {})
Result(data) ==
    [type |-> "result", status_code |-> 200, has_code |-> TRUE, error_code |-> 0,
     value |-> IF data.has_result THEN data.result ELSE "{}"]

\* _handle_response (bybit_api.py:122-131, bybit_api_async.py:143-163) once
\* response.json() has returned data: the result or the exception raised
handle_response(status_code, data) ==
    IF status_code # 200 \/ ~(data.has_retCode /\ data.retCode = 0)
    THEN BybitAPIError(status_code, TRUE, IF data.has_retCode THEN data.retCode ELSE 0)
    ELSE Result(data)

\* one attempt of _request: _handle_response and the except branch
\* (bybit_api.py:178-180): the result payload, or the exception raised
Ok == [type |-> "ok", status_code |-> 200, has_code |-> TRUE, error_code |-> 0]
attempt_outcome(reply) ==
    IF reply.kind = "transport" THEN BybitAPIError(500, FALSE, 0)
    ELSE LET r == handle_response(reply.http, JsonBody(TRUE, reply.retCode, FALSE, "{}"))
         IN  IF r.type = "result" THEN Ok ELSE r

RECURSIVE Pow2(_)
Pow2(n) == IF n = 0 THEN 1 ELSE 2 * Pow2(n - 1)
Max(a, b) == IF a >= b THEN a ELSE b
Min(a, b) == IF a <= b THEN a ELSE b
\* wait_exponential after the attempt with the given number (tenacity:
\* multiplier * 2 ** (attempt_number - 1), kept within [min, max])
wait_exponential(attempt_number) ==
    Max(Max(0, WaitMin), Min(WaitMultiplier * Pow2(attempt_number - 1), WaitMax))

\* what the caller gets when the attempts are used up: the sync client's
\* decorator has no reraise, so tenacity raises RetryError; the async client
\* passes reraise=True (bybit_api_async.py:195) and the last error is raised
exhausted_error(client, last_attempt) ==
    IF client = "async" THEN last_attempt ELSE RetryError(last_attempt)

Retrying(n, failures, waits) ==
    [kind |-> "retrying", attempt_number |-> n, failures |-> failures, waits |-> waits,
     error |-> Ok]
RequestEnd(kind, n, failures, waits, error) ==
    [kind |-> kind, attempt_number |-> n, failures |-> failures, waits |-> waits,
     error |-> error]

InitRest ==
    /\ symbol = "ETHUSDT"
    /\ test_mode = FALSE
    /\ low_price = 0
    /\ high_price = 0
    /\ grid_levels = 0
    /\ price_dec = 0
    /\ grid_prices = << >>
    /\ qty = 1
    /\ call \in { [fn |-> "_request", client |-> c] : c \in {"sync", "async"} }
    /\ ret = Retrying(0, << >>, << >>)
    /\ wsc = NewWebsocket("ws_client")
    /\ active_orders = << >>
    /\ is_running = FALSE
    /\ db_open = TRUE
    /\ fills = << >>
    /\ exchange = << >>
    /\ pc = "created"
    /\ ladder = << >>
    /\ ladder_i = 0
    /\ price_fetch = "none"
    /\ sim_orders = << >>
    /\ sim_i = 0
    /\ cancel_requests = {}
    /\ ws_open = FALSE
    /\ events = 0
    /\ placements = << >>
    /\ deliveries = << >>
    /\ last = NoCall

\* one attempt of _request and the decision tenacity takes after it
\* (bybit_api.py:133-180, bybit_api_async.py:190-229)
RequestAttempt ==
    /\ call.fn = "_request"
    /\ ret.kind = "retrying"
    /\ \E reply \in Replies :
          LET n == ret.attempt_number + 1
              outcome == attempt_outcome(reply)
          IN  IF outcome = Ok
              THEN ret' = RequestEnd("returned", n, ret.failures, ret.waits, Ok)
              ELSE LET failures == Append(ret.failures, outcome)
                   IN  IF ~is_bybit_error_retryable(outcome)
                       THEN ret' = RequestEnd("raised", n, failures, ret.waits, outcome)
                       ELSE IF n >= MAX_RETRIES      \* stop_after_attempt
                       THEN ret' = RequestEnd("raised", n, failures, ret.waits,
                                              exhausted_error(call.client, outcome))
                       ELSE ret' = Retrying(n, failures,
                                            Append(ret.waits, wait_exponential(n)))
    /\ UNCHANGED <<symbol, low_price, high_price, grid_levels, price_dec, qty, test_mode,
                   grid_prices, call, active_orders, is_running, db_open, fills, exchange,
                   startv, simv, stopv, events, placements, deliveries, last, wsc>>

NextRest == RequestAttempt

SpecRest == InitRest /\ [][NextRest]_vars

\* ------------------------------------ BybitWebsocket (connect, reconnect)
\* largest number of successful connects in one behaviour
MaxConnects == 2

\* a delay that does not grow with the attempts
ConstantWait(delay, attempts) == delay

\* delay = self.reconnect_delay * self.reconnect_attempts (ws_client.py:159)
reconnect_wait(delay, attempts) == delay * attempts

InitWs ==
    /\ symbol = "ETHUSDT"
    /\ test_mode = FALSE
    /\ low_price = 0
    /\ high_price = 0
    /\ grid_levels = 0
    /\ price_dec = 0
    /\ grid_prices = << >>
    /\ qty = 1
    /\ call = NoArgs
    /\ ret = Pending
    /\ wsc \in { NewWebsocket(c) : c \in {"ws_client", "ws_client_new"} }
    /\ active_orders = << >>
    /\ is_running = FALSE
    /\ db_open = TRUE
    /\ fills = << >>
    /\ exchange = << >>
    /\ pc = "created"
    /\ ladder = << >>
    /\ ladder_i = 0
    /\ price_fetch = "none"
    /\ sim_orders = << >>
    /\ sim_i = 0
    /\ cancel_requests = {}
    /\ ws_open = FALSE
    /\ events = 0
    /\ placements = << >>
    /\ deliveries = << >>
    /\ last = NoCall

ws_frame == <<symbol, low_price, high_price, grid_levels, price_dec, qty, test_mode,
              grid_prices, call, ret, active_orders, is_running, db_open, fills, exchange,
              startv, simv, stopv, events, placements, deliveries, last>>

\* the caller awaits connect() (ws_client.py:74)
WsConnect ==
    /\ wsc.pc = "idle"
    /\ wsc' = [wsc EXCEPT !.pc = "connecting"]
    /\ UNCHANGED ws_frame

\* the try block of connect (ws_client.py:76-85): websockets.connect,
\* _authenticate and _subscribe_topics all succeed, or one of them raises and
\* the except branch awaits _try_reconnect (ws_client.py:87-89)
WsConnectAttempt ==
    /\ wsc.pc = "connecting"
    /\ \E ok \in BOOLEAN :
          IF ok
          THEN /\ wsc.connects < MaxConnects
               /\ wsc' = [wsc EXCEPT !.pc = "connected", !.connected = TRUE,
                                      !.reconnect_attempts = 0, !.waits = << >>,
                                      !.connects = @ + 1]
          ELSE wsc' = [wsc EXCEPT !.pc = "reconnect", !.connected = FALSE]
    /\ UNCHANGED ws_frame

\* the receive loop fails (ConnectionClosed or another error) and listen
\* awaits _try_reconnect (ws_client.py:226-231)
WsConnectionLost ==
    /\ wsc.pc = "connected"
    /\ wsc' = [wsc EXCEPT !.pc = "reconnect", !.connected = FALSE]
    /\ UNCHANGED ws_frame

\* _try_reconnect up to its sleep (ws_client.py:152-162)
WsTryReconnect ==
    /\ wsc.pc = "reconnect"
    /\ IF wsc.reconnect_attempts >= max_reconnect_attempts(wsc.client)
       THEN wsc' = [wsc EXCEPT !.pc = "gave_up"]
       ELSE LET attempts == wsc.reconnect_attempts + 1
                delay == reconnect_wait(reconnect_delay(wsc.client), attempts)
            IN  wsc' = [wsc EXCEPT !.reconnect_attempts = attempts,
                                   !.waits = Append(@, delay),
                                   !.pc = "sleeping"]
    /\ UNCHANGED ws_frame

\* the sleep is over: the old connection is closed and connect() is awaited
\* again (ws_client.py:164-173)
WsReconnect ==
    /\ wsc.pc = "sleeping"
    /\ wsc' = [wsc EXCEPT !.pc = "connecting"]
    /\ UNCHANGED ws_frame

NextWs ==
    \/ WsConnect
    \/ WsConnectAttempt
    \/ WsConnectionLost
    \/ WsTryReconnect
    \/ WsReconnect

SpecWs == InitWs /\ [][NextWs]_vars

\* ------------------------------------------------------------- properties
RECURSIVE BagSum(_, _)
BagSum(b, S) == IF S = {} THEN 0
                ELSE LET x == CHOOSE y \in S : TRUE IN b[x] + BagSum(b, S \ {x})

\* rows of the fills table written for an order
FillRecords(order_id) == BagSum(fills, { t \in DOMAIN fills : t.order_id = order_id })
\* mirror placements (requests to the exchange, or simulated in test mode) for a fill
MirrorPlacements(order_id) ==
    BagSum(placements, { q \in DOMAIN placements : q.cause = order_id })
\* no add_trade has failed: every handled fill wrote its row
NoLedgerFailure ==
    BagSum(deliveries, DOMAIN deliveries) = BagSum(fills, DOMAIN fills)

OrderLevel(order) == find_grid_level(Float(order.price), grid_prices)

\* C1: in every reachable state the active-order table holds at most one order
\* with status New for each (grid level, side) pair.
C1_OneNewOrderPerLevelSide ==
    \A a \in NewOrderIds(active_orders), b \in NewOrderIds(active_orders) :
        (a # b /\ active_orders[a].side = active_orders[b].side)
            => OrderLevel(active_orders[a]) # OrderLevel(active_orders[b])

\* C2: when the same Filled event of a tracked order is delivered twice (and no
\* Ledger write fails), the Ledger holds exactly one Fill record for that order.
C2_OneFillPerOrder ==
    NoLedgerFailure =>
        \A order_id \in DOMAIN deliveries :
            deliveries[order_id] >= 2 => FillRecords(order_id) = 1

\* C3: when the same Filled event of a tracked order is delivered twice, with
\* other fills (also of the first mirror) in between, at most one mirror order
\* is placed for that fill.
C3_OneMirrorPerFill ==
    \A order_id \in DOMAIN deliveries :
        deliveries[order_id] >= 2 => MirrorPlacements(order_id) <= 1

EventHandled == events' = events + 1

MirrorResult(side, ticks) == [kind |-> "order"] @@ NewOrderDict(side, ticks, qty)
ListHolds(active_list, ticks, side) ==
    \E k \in 1..Len(active_list) :
        active_list[k].price = Str(ticks) /\ active_list[k].side = side

C7_NoneAtBoundary ==
    (call.fn = "calculate_mirror_order" /\ ret # Pending
        /\ IsNumber(call.filled_order.price)) =>
        LET i == find_grid_level(Float(call.filled_order.price), grid_prices)
            n == Len(grid_prices)
        IN  /\ (call.filled_order.side = "Buy" /\ i = n - 1) => ret = None
            /\ (call.filled_order.side = "Sell" /\ i = 0) => ret = None
            /\ (grid_prices = Grid6 /\ call.filled_order.side = "Sell"
                   /\ call.filled_order.price = Str(Ticks(2000))) => ret = None

\* the mirror level of a tracked order: the adjacent 0-based index, or -1
MirrorIndex(order) ==
    LET i == OrderLevel(order)
        j == IF order.side = "Buy" THEN i + 1 ELSE i - 1
    IN  IF j < 0 \/ j >= Len(grid_prices) THEN -1 ELSE j
MirrorSide(order) == IF order.side = "Buy" THEN "Sell" ELSE "Buy"
\* some other New order of the table rests at the mirror level of order_id
MirrorLevelHeld(orders, order_id) ==
    /\ MirrorIndex(orders[order_id]) >= 0
    /\ \E k \in NewOrderIds(orders) \ {order_id} :
          /\ Float(orders[k].price) = grid_prices[MirrorIndex(orders[order_id]) + 1]
          /\ orders[k].side = MirrorSide(orders[order_id])

\* C8: when the active orders hold a New order at the target grid price with
\* the mirror side, calculate_mirror_order returns None and the engine places
\* no order and adds no entry to the active-order table for that fill.
C8_TakenLevelDropsMirror ==
    [][ (/\ EventHandled
         /\ last'.tracked
         /\ last'.trade
         /\ MirrorLevelHeld(active_orders, last'.order_id))
        => /\ last'.mirror = None
           /\ last'.placed = "no"
           /\ UNCHANGED <<placements, exchange>>
           /\ DOMAIN active_orders' = DOMAIN active_orders ]_vars

\* a fill was recorded and its mirror dropped because a New order holds the level
C8_Witness ==
    /\ last.tracked
    /\ last.trade
    /\ last.mirror = None
    /\ MirrorLevelHeld(active_orders, last.order_id)

\* C10: when the placement of a ladder order is refused by the exchange, the
\* order is skipped: start goes on with the remaining ladder orders and the
\* engine stays running.
C10_RefusedLadderOrderSkipped ==
    (\E q \in DOMAIN placements : q.cause = LadderCause /\ q.how = "rejected")
        => /\ pc # "failed"
           /\ (pc \in {"placing", "running"} => is_running)

\* some ladder order was sent to the exchange or simulated
LadderPlaced == \E q \in DOMAIN placements : q.cause = LadderCause

\* C11: if the starting price cannot be fetched from the exchange, startup
\* fails: no ladder is computed from a substitute price, no ladder order is
\* placed and the engine is not running.
C11_NoStartWithoutPrice ==
    price_fetch = "raised" =>
        /\ ~is_running
        /\ ladder = << >>
        /\ ~LadderPlaced
        /\ pc \notin {"placing", "running"}

\* stop() has returned
Stopped == pc \in {"stopped", "exited"}
\* the orders of the bot that rest on the exchange with status New
RestingOrders == { k \in DOMAIN exchange : exchange[k].status = "New" }

\* C12: shutdown issues a cancel request for every order whose status is New
\* (so an order still New afterwards is one whose cancel failed), and after it
\* the event stream is closed and the Ledger is closed.
C12_StopCancelsAndCloses ==
    (Stopped /\ ~test_mode) =>
        /\ NewOrderIds(active_orders) \subseteq cancel_requests
        /\ RestingOrders \subseteq cancel_requests
        /\ ~ws_open
        /\ ~db_open

\* C13: after shutdown has completed the active-order table is empty.
C13_TableEmptyAfterStop ==
    Stopped => active_orders = << >>

\* C14: when the shutdown signal arrives while start is still placing the
\* ladder, no ladder order is placed afterwards and every ladder order the
\* exchange has accepted is cancelled when the process exits.
C14_SignalDuringLadder ==
    [][ /\ (pc = "exited" => UNCHANGED <<placements, exchange>>)
        /\ (pc' = "exited" => RestingOrders' = {}) ]_vars

Transient(failure) == failure.has_code /\ failure.error_code \in RETRY_ERROR_CODES

\* C15: a REST request is re-attempted only after a failure with a transient
\* code, at most MAX_RETRIES attempts are made, the backoff delays are
\* non-decreasing and capped at the maximum; a failure with any other code
\* (or with no code) reaches the caller at once, after exactly one attempt
\* when it is the first; a success on attempt k is returned after exactly k
\* attempts.
C15_RetryOnlyTransient ==
    call.fn = "_request" =>
        LET n == ret.attempt_number
            f == ret.failures
            w == ret.waits
        IN  /\ n <= MAX_RETRIES
            /\ \A j \in 1..Len(f) : j < n => Transient(f[j])
            /\ Len(w) = (IF ret.kind = "retrying" THEN n ELSE n - 1)
            /\ \A j \in 1..Len(w) : w[j] <= WaitMax /\ (j > 1 => w[j - 1] <= w[j])
            /\ \A j \in 1..Len(f) :
                  ~Transient(f[j]) => /\ j = n
                                      /\ ret.kind = "raised"
                                      /\ ret.error = f[j]
            /\ ret.kind = "returned" => (Len(f) = n - 1 /\ n >= 1)
            /\ ret.kind = "retrying" => Len(f) = n

\* a success on the third attempt, after two transient failures and the
\* delays 1 and 2
C15_Witness ==
    /\ call.fn = "_request"
    /\ ret.kind = "returned"
    /\ ret.attempt_number = 3
    /\ Len(ret.failures) = 2
    /\ ret.waits = <<1, 2>>

\* C16: when every attempt fails with a transient code until the attempt
\* bound is reached, the caller receives a BybitAPIError that carries the code
\* of the last failed attempt, in the synchronous and in the asynchronous
\* client.
C16_ExhaustionRaisesApiError ==
    (call.fn = "_request" /\ ret.kind = "raised" /\ ret.attempt_number = MAX_RETRIES
        /\ Transient(ret.failures[MAX_RETRIES])) =>
        /\ ret.error.type = "BybitAPIError"
        /\ ret.error.has_code
        /\ ret.error.error_code = ret.failures[MAX_RETRIES].error_code

\* the counter and the delays of the current run of failed attempts
WsCounterInv ==
    /\ wsc.reconnect_attempts <= max_reconnect_attempts(wsc.client)
    /\ Len(wsc.waits) = wsc.reconnect_attempts
    /\ \A k \in 1..Len(wsc.waits) : wsc.waits[k] = reconnect_delay(wsc.client) * k
    /\ wsc.pc = "connected" => wsc.reconnect_attempts = 0
    /\ wsc.pc = "gave_up" => wsc.reconnect_attempts = max_reconnect_attempts(wsc.client)

\* C17: while the endpoint keeps failing the client makes at most
\* max_reconnect_attempts consecutive reconnect attempts and then stops; the
\* k-th consecutive attempt waits reconnect_delay * k; the counter never
\* exceeds max_reconnect_attempts and a successful connect resets it to 0.
C17_BoundedReconnect ==
    [][ /\ WsCounterInv'
        /\ (wsc.pc = "gave_up" => wsc' = wsc)
        /\ (wsc'.pc = "connecting" /\ wsc.pc = "sleeping")
              => wsc.waits[wsc.reconnect_attempts]
                   = reconnect_delay(wsc.client) * wsc.reconnect_attempts ]_vars

\* the client of ws_client.py has given up after its 10th attempt, which
\* waited 50 seconds
C17_Witness ==
    /\ wsc.client = "ws_client"
    /\ wsc.pc = "gave_up"
    /\ wsc.reconnect_attempts = 10
    /\ wsc.waits[10] = 50

\* C18: when the reconnect attempts are exhausted the condition is surfaced to
\* the engine and the engine leaves the running state: it is never left
\* running with no event stream.
C18_StreamLossStopsEngine ==
    (~test_mode /\ pc = "running" /\ ~ws_open) ~> ~is_running

\* the mirror order the fill of a tracked order calls for
ExpectedMirror(orders, order_id) ==
    calculate_mirror_order(FilledOrder(order_id, orders[order_id]), grid_prices, qty,
                           NewOrdersList(MarkFilled(orders, order_id)))

\* C19: when the Ledger write fails while a fill is handled, the engine keeps
\* running and the processing of the fill continues: the mirror order is still
\* derived and, if there is one, placed and tracked.
C19_LedgerFailureKeepsMirror ==
    [][ (/\ EventHandled
         /\ pc = "running"
         /\ last'.tracked
         /\ ~last'.trade)
        => /\ is_running' = is_running
           /\ last'.mirror = ExpectedMirror(active_orders, last'.order_id)
           /\ last'.mirror # None =>
                 /\ last'.placed # "no"
                 /\ Cardinality(DOMAIN active_orders') > Cardinality(DOMAIN active_orders)
       ]_vars

\* an order of the ladder was filled on the exchange while start() was still
\* placing the ladder
FilledDuringStart == { k \in DOMAIN exchange : exchange[k].status = "Filled" }

\* C20: a fill that happens while start() is still placing the ladder is not
\* lost: once initialization has finished it is processed by the engine (its
\* Fill record is written).
C20_EarlyFillProcessed ==
    (pc = "running" /\ FilledDuringStart # {})
        ~> (\E k \in FilledDuringStart : FillRecords(k) >= 1)

\* ------------------------------------------ the functions of grid.py alone
\* largest number of intervals asked of build_grid
MaxGrids == 6

\* engine state that a call of a pure function never touches
NoEngine ==
    /\ symbol = "ETHUSDT"
    /\ test_mode = TRUE
    /\ low_price = 0
    /\ high_price = 0
    /\ grid_levels = 0
    /\ price_dec = 0
    /\ qty = 1
    /\ wsc = NewWebsocket("ws_client")
    /\ active_orders = << >>
    /\ is_running = FALSE
    /\ db_open = TRUE
    /\ fills = << >>
    /\ exchange = << >>
    /\ pc = "created"
    /\ ladder = << >>
    /\ ladder_i = 0
    /\ price_fetch = "none"
    /\ sim_orders = << >>
    /\ sim_i = 0
    /\ cancel_requests = {}
    /\ ws_open = FALSE
    /\ events = 0
    /\ placements = << >>
    /\ deliveries = << >>
    /\ last = NoCall

\* bounds <<low, high, dec>> in units of 10^-dec: every rounding tier
\* (range > 10000, > 1000, > 100, smaller), ranges of a few ticks, low = high
\* and low > high
GridBounds ==
    { <<0, 10001, 0>>, <<1000, 2001, 0>>, <<1000, 2000, 0>>, <<100, 201, 0>>,
      <<10, 40, 0>>, <<10, 30, 0>>, <<0, 1, 0>>,
      <<1, 3, 5>>, <<99996, 100004, 5>>,
      <<10, 10, 0>>, <<2000, 1000, 0>>, <<0, 0, 0>> }

BuildGridCalls ==
    { [fn |-> "build_grid", low |-> b[1], high |-> b[2], dec |-> b[3], grids |-> g] :
        b \in GridBounds, g \in (-1)..MaxGrids }

\* grids handed to the other functions: results of build_grid
PureGrids ==
    { Grid6, Grid4, build_grid(1000, 2001, 3, 0), build_grid(1, 3, 2, 5),
      build_grid(99996, 100004, 4, 5) }

RECURSIVE Gcd(_, _)
Gcd(a, b) == IF b = 0 THEN a ELSE Gcd(b, a % b)

\* the float n / d as a fraction in lowest terms
Fraction(n, d) == LET g == Gcd(Abs(n), d) IN [num |-> n \div g, den |-> d \div g]

\* mid prices: every grid price, the midpoint of every two adjacent levels,
\* half the lowest price and a price above twice the highest
MidPrices(grid) ==
    { Fraction(grid[k], Pow10(PriceScale)) : k \in 1..Len(grid) }
    \cup { Fraction(grid[k] + grid[k + 1], 2 * Pow10(PriceScale)) :
             k \in 1..(Len(grid) - 1) }
    \cup { Fraction(grid[1] \div 2, Pow10(PriceScale)),
           Fraction(2 * grid[Len(grid)] + Pow10(PriceScale), Pow10(PriceScale)) }

InitialOrdersCalls(grid) ==
    { [fn |-> "calculate_initial_orders", mid_price |-> m] : m \in MidPrices(grid) }

\* prices in ticks: every grid price, the points at 1/4, 1/2 and 3/4 between
\* adjacent levels, and a price outside each end of the ladder
LevelPrices(grid) ==
    { grid[k] : k \in 1..Len(grid) }
    \cup { (i * grid[k] + (4 - i) * grid[k + 1]) \div 4 :
             i \in 1..3, k \in 1..(Len(grid) - 1) }
    \cup { grid[1] - 1, grid[Len(grid)] + 1 }

FindLevelCalls(grid) ==
    { [fn |-> "find_grid_level", price |-> p] : p \in LevelPrices(grid) }

InitGrid ==
    /\ NoEngine
    /\ ret = Pending
    /\ \/ /\ grid_prices = << >>
          /\ call \in BuildGridCalls
       \/ /\ grid_prices \in PureGrids
          /\ \/ call \in InitialOrdersCalls(grid_prices)
             \/ call \in FindLevelCalls(grid_prices)
             \/ call \in MirrorCalls(grid_prices, qty)

PureUnchanged ==
    UNCHANGED <<symbol, low_price, high_price, grid_levels, price_dec, qty, test_mode,
                grid_prices, call, active_orders, is_running, db_open, fills, exchange,
                startv, simv, stopv, events, placements, deliveries, last, wsc>>

\* what the caller of build_grid gets: the ValueError or the array
GridResult(r) ==
    IF Len(r) = 1 THEN [kind |-> "ValueError", value |-> << >>]
    ELSE [kind |-> "grid", value |-> r]

BuildGrid ==
    /\ call.fn = "build_grid"
    /\ ret = Pending
    /\ ret' = GridResult(build_grid(call.low, call.high, call.grids, call.dec))
    /\ PureUnchanged

CalculateInitialOrders ==
    /\ call.fn = "calculate_initial_orders"
    /\ ret = Pending
    /\ ret' = LET r == calculate_initial_orders(grid_prices, call.mid_price, qty)
              IN  [kind |-> "orders", buy_orders |-> r[1], sell_orders |-> r[2]]
    /\ PureUnchanged

FindGridLevel ==
    /\ call.fn = "find_grid_level"
    /\ ret = Pending
    /\ ret' = [kind |-> "index", value |-> find_grid_level(call.price, grid_prices)]
    /\ PureUnchanged

NextGrid ==
    \/ BuildGrid
    \/ CalculateInitialOrders
    \/ FindGridLevel
    \/ CalculateMirrorOrder

SpecGrid == InitGrid /\ [][NextGrid]_vars

\* ------------------------------------------------------ claims on grid.py
BuildGridReturned == call.fn = "build_grid" /\ ret.kind # "pending"

\* a bound given in units of 10^-dec, rounded to d decimals, in ticks
RoundedBound(x, d, dec) ==
    (IF d <= dec THEN RoundHalfEven(x, Pow10(dec - d)) ELSE x * Pow10(d - dec))
        * Pow10(PriceScale - d)

StrictlyIncreasing(s) == \A k \in 1..(Len(s) - 1) : s[k] < s[k + 1]

\* C22: for every low < high and every levels >= 2, build_grid returns exactly
\* levels + 1 prices, strictly increasing, the first equal to low and the last
\* equal to high after rounding to the precision tier of the range.
C22_GridShape ==
    (BuildGridReturned /\ call.low < call.high /\ call.grids >= 2) =>
        /\ ret.kind = "grid"
        /\ Len(ret.value) = call.grids + 1
        /\ StrictlyIncreasing(ret.value)
        /\ LET d == grid_decimals(call.low, call.high, call.dec)
           IN  /\ ret.value[1] = RoundedBound(call.low, d, call.dec)
               /\ ret.value[Len(ret.value)] = RoundedBound(call.high, d, call.dec)

\* C23: build_grid fails with a validation error whenever low >= high (equal
\* bounds included) or levels < 2.
C23_InvalidArgumentsRefused ==
    (BuildGridReturned /\ (call.low >= call.high \/ call.grids < 2)) =>
        ret.kind = "ValueError"

C23_Witness ==
    /\ BuildGridReturned
    /\ call.low = call.high
    /\ call.grids >= 2
    /\ ret.kind = "ValueError"


InitialOrdersReturned == call.fn = "calculate_initial_orders" /\ ret.kind = "orders"

\* indices (1-based) of the grid prices below, above and equal to the mid price
BelowMid == { k \in 1..Len(grid_prices) : PriceBelow(grid_prices[k], call.mid_price) }
AboveMid == { k \in 1..Len(grid_prices) : PriceAbove(grid_prices[k], call.mid_price) }
AtMid == (1..Len(grid_prices)) \ (BelowMid \cup AboveMid)

\* the j-th smallest element of a set of indices
Nth(S, j) == CHOOSE k \in S : Cardinality({ m \in S : m < k }) = j - 1

\* the orders are one per index of S, in grid index order, on the given side
OrdersAre(orders, S, side) ==
    /\ Len(orders) = Cardinality(S)
    /\ \A j \in 1..Len(orders) :
          orders[j] = NewOrderDict(side, grid_prices[Nth(S, j)], qty)

\* C24: calculate_initial_orders returns a Buy order for exactly the grid
\* prices strictly below the mid price and a Sell order for exactly those
\* strictly above it, none for a price equal to it, each list in grid index
\* order; the number of orders is len(grid) minus 1 if some grid price equals
\* the mid price, else len(grid).
C24_InitialOrders ==
    InitialOrdersReturned =>
        /\ OrdersAre(ret.buy_orders, BelowMid, "Buy")
        /\ OrdersAre(ret.sell_orders, AboveMid, "Sell")
        /\ Len(ret.buy_orders) + Len(ret.sell_orders)
              = Len(grid_prices) - (IF AtMid # {} THEN 1 ELSE 0)


FindLevelReturned == call.fn = "find_grid_level" /\ ret.kind = "index"

\* |grid[i] - price| for the 0-based index i
Distance(i, price) == Abs(grid_prices[i + 1] - price)

\* the 0-based indices of the levels nearest to the price
NearestLevels(price) ==
    { i \in 0..(Len(grid_prices) - 1) :
        \A j \in 0..(Len(grid_prices) - 1) : Distance(i, price) <= Distance(j, price) }

\* the smallest element of a non-empty set of indices
Smallest(S) == CHOOSE i \in S : \A j \in S : i <= j

\* C25: find_grid_level returns the smallest index i minimising
\* |grid[i] - price| (first occurrence on ties), and calculate_mirror_order
\* uses the same index for the fill price; on [1000, 1200, .., 2000] it
\* returns 1 for 1200, 1 for 1300 and 2 for 1350.
C25_NearestLevelFirstOnTies ==
    /\ FindLevelReturned =>
          /\ ret.value = Smallest(NearestLevels(call.price))
          /\ grid_prices = Grid6 =>
                /\ call.price = Ticks(1200) => ret.value = 1
                /\ call.price = Ticks(1300) => ret.value = 1
                /\ call.price = Ticks(1350) => ret.value = 2
    /\ (call.fn = "calculate_mirror_order" /\ ret.kind = "order") =>
          LET idx == Smallest(NearestLevels(Float(call.filled_order.price)))
              idx_new == IF call.filled_order.side = "Buy" THEN idx + 1 ELSE idx - 1
          IN  Float(ret.price) = grid_prices[idx_new + 1]

C25_Witness ==
    /\ FindLevelReturned
    /\ grid_prices = Grid6
    /\ call.price = Ticks(1300)
    /\ Cardinality(NearestLevels(call.price)) = 2
    /\ ret.value = 1

\* the price lies exactly midway between two adjacent levels of different price
Midway(price) ==
    \E k \in 1..(Len(grid_prices) - 1) :
        /\ grid_prices[k] < grid_prices[k + 1]
        /\ 2 * price = grid_prices[k] + grid_prices[k + 1]

\* C26 (as stated): for a price exactly midway between two adjacent levels,
\* find_grid_level returns the index of the higher of the two levels.
C26_TieGoesToHigherLevel ==
    (FindLevelReturned /\ Midway(call.price)) =>
        /\ ret.value >= 1
        /\ 2 * call.price = grid_prices[ret.value] + grid_prices[ret.value + 1]

\* C26 (amended): for a price exactly midway between two adjacent levels,
\* find_grid_level returns the index of the lower of the two levels.
C26_TieGoesToLowerLevel ==
    (FindLevelReturned /\ Midway(call.price)) =>
        /\ ret.value + 2 <= Len(grid_prices)
        /\ 2 * call.price = grid_prices[ret.value + 1] + grid_prices[ret.value + 2]

C26_Witness ==
    /\ FindLevelReturned
    /\ Midway(call.price)
    /\ ret.value = 2
    /\ grid_prices = Grid4


\* results by which a caller learns that the call raised
Raised == {"ValueError", "KeyError", "TypeError"}

\* C30: every error inside a function of grid.py (calculate_mirror_order with
\* a missing or non-numeric price, build_grid with invalid arguments) reaches
\* the caller as an error and is never turned into a normal return value
\* such as None.
C30_ErrorsSurfaced ==
    /\ (BuildGridReturned /\ (call.low >= call.high \/ call.grids < 2)) =>
          ret.kind \in Raised
    /\ (/\ call.fn = "calculate_mirror_order"
        /\ ret.kind # "pending"
        /\ ~IsNumber(call.filled_order.price)) =>
          ret.kind \in Raised


\* ---------------------------------------- one response through _request
HttpStatuses == {200, 201, 400, 401, 403, 429, 500, 502}
RetCodes == {0, 10001, 10002, 10006, 110001}
Payloads == {"{orderId}", "{list}"}

Bodies ==
    { JsonBody(TRUE, c, TRUE, r) : c \in RetCodes, r \in Payloads }
    \cup { JsonBody(TRUE, c, FALSE, "{}") : c \in RetCodes }
    \cup { JsonBody(FALSE, 0, TRUE, r) : r \in Payloads }
    \cup { JsonBody(FALSE, 0, FALSE, "{}"), NotJson }

\* response.json() on a body that is not JSON raises. In the synchronous client
\* the error is a requests.RequestException or a plain ValueError, depending on
\* the version of requests; in the asynchronous one an aiohttp.ClientError
\* (wrong content type) or a json.JSONDecodeError. The except branch of
\* _request turns the first of each pair into BybitAPIError(500, ..) and lets
\* the second through.
JSONDecodeError ==
    [type |-> "JSONDecodeError", status_code |-> 0, has_code |-> FALSE, error_code |-> 0]
json_failure_outcomes(client) == { BybitAPIError(500, FALSE, 0), JSONDecodeError }

InitResponse ==
    /\ NoEngine
    /\ grid_prices = << >>
    /\ ret = Pending
    /\ call \in { [fn |-> "_handle_response", client |-> c, status_code |-> h, data |-> d] :
                    c \in {"sync", "async"}, h \in HttpStatuses, d \in Bodies }

\* one response handled by _request: _handle_response under the except branch
HandleResponse ==
    /\ call.fn = "_handle_response"
    /\ ret = Pending
    /\ IF call.data.json
       THEN ret' = handle_response(call.status_code, call.data)
       ELSE ret' \in json_failure_outcomes(call.client)
    /\ PureUnchanged

NextResponse == HandleResponse

SpecResponse == InitResponse /\ [][NextResponse]_vars

ResponseHandled == call.fn = "_handle_response" /\ ret # Pending

ResponseOk ==
    /\ call.data.json
    /\ call.status_code = 200
    /\ call.data.has_retCode
    /\ call.data.retCode = 0

\* C29: a REST response yields the result payload if and only if its HTTP
\* status is 200 and its result code is 0; in every other case the caller
\* gets a BybitAPIError that carries exactly the response's result code and
\* HTTP status.
C29_ResultIffOk ==
    ResponseHandled =>
        /\ ret.type = "result" <=> ResponseOk
        /\ ResponseOk => ret.value = (IF call.data.has_result THEN call.data.result ELSE "{}")
        /\ ~ResponseOk =>
              /\ ret.type = "BybitAPIError"
              /\ ret.status_code = call.status_code
              /\ call.data.has_retCode => (ret.has_code /\ ret.error_code = call.data.retCode)


\* ------------------------------------------- the ladder of the worked example
\* GridBot(symbol, 1000, 2000, 5, qty) of tests/test_grid.py and README:
\* both symbols, live and test mode
InitExample ==
    /\ symbol \in Symbols
    /\ test_mode \in BOOLEAN
    /\ low_price = 1000
    /\ high_price = 2000
    /\ grid_levels = 5
    /\ price_dec = 0
    /\ grid_prices = build_grid(1000, 2000, 5, 0)
    /\ qty = 1
    /\ active_orders = << >>
    /\ is_running = FALSE
    /\ db_open = TRUE
    /\ fills = << >>
    /\ exchange = << >>
    /\ pc = "created"
    /\ ladder = << >>
    /\ ladder_i = 0
    /\ price_fetch = "none"
    /\ sim_orders = << >>
    /\ sim_i = 0
    /\ cancel_requests = {}
    /\ ws_open = FALSE
    /\ events = 0
    /\ placements = << >>
    /\ deliveries = << >>
    /\ last = NoCall
    /\ call = NoArgs
    /\ ret = Pending
    /\ wsc = NewWebsocket("ws_client")

\* start() and what can happen while it runs
NextExample ==
    \/ StartBegin
    \/ StartPlaceOrder
    \/ StartFinish
    \/ FillDuringStart
    \/ Stop

SpecExample == InitExample /\ [][NextExample]_vars


\* the orders of the ladder on the given side, as prices in whole units
LadderPrices(side) ==
    { Float(ladder[k].price) : k \in { j \in 1..Len(ladder) : ladder[j].side = side } }

ExampleLadderRuns ==
    /\ pc = "running"
    /\ low_price = 1000 /\ high_price = 2000 /\ grid_levels = 5 /\ price_dec = 0

\* C27: with symbol BTCUSDT, low = 1000, high = 2000, levels = 5, started at a
\* mid price of 1500, the grid is [1000, 1200, 1400, 1600, 1800, 2000], the
\* engine places exactly 3 Buy orders (1000, 1200, 1400) and 3 Sell orders
\* (1600, 1800, 2000), and 6 New orders are in the table.
C27_ExampleLadder ==
    (ExampleLadderRuns /\ symbol = "BTCUSDT") =>
        /\ grid_prices = << Ticks(1000), Ticks(1200), Ticks(1400),
                            Ticks(1600), Ticks(1800), Ticks(2000) >>
        /\ get_current_price = [num |-> 1500, den |-> 1]
        /\ Len(ladder) = 6
        /\ LadderPrices("Buy") = { Ticks(1000), Ticks(1200), Ticks(1400) }
        /\ LadderPrices("Sell") = { Ticks(1600), Ticks(1800), Ticks(2000) }
        /\ Cardinality(NewOrderIds(active_orders)) = 6


\* the order ids in the active_orders table of the ledger (db.py:63-76). Rows
\* are written only by record_active_order (db.py:180-208) and deleted only by
\* remove_active_order (db.py:210-220); runner.py calls neither, so the table
\* stays as create_tables leaves it.
db_active_orders == {}

\* C28: every order the exchange accepts is recorded both in the engine's
\* table and in the active-orders table of the ledger, and after every
\* operation the ledger's table holds exactly the order ids that are New in
\* the engine's table.
C28_LedgerTracksNewOrders ==
    /\ \A k \in DOMAIN exchange :
          /\ k \in DOMAIN active_orders
          /\ k \in db_active_orders
    /\ db_active_orders = NewOrderIds(active_orders)


\* ------------------------------------------ delivery of order events
\* number of order events that arrive
MaxArrivals == 6

\* the state of the delivery, kept in ret: the events are numbered in
\* arrival order; inbox holds the events not yet read (the messages buffered
\* on the socket, or the rest of the list simulate_order_execution iterates);
\* invoked holds the events whose handler has been called and waits for
\* ws_lock; lock is the event whose handler holds ws_lock, or 0; log records
\* where handle_order_execution starts and ends
Dispatch(arrived, inbox, invoked, lock, log) ==
    [kind |-> "dispatch", arrived |-> arrived, inbox |-> inbox, invoked |-> invoked,
     lock |-> lock, log |-> log]

InitDispatch ==
    /\ NoEngine
    /\ grid_prices = << >>
    /\ call \in { [fn |-> "listen"], [fn |-> "simulate_order_execution"] }
    /\ ret = Dispatch(0, << >>, {}, 0, << >>)

\* a deliverer that calls the next handler without waiting for the last one
NeverWaits(invoked, lock) == TRUE

\* the handler is awaited before the next message is read (ws_client.py:219),
\* and the loop of simulate_order_execution calls it in line (runner.py:322-336)
deliverer_idle(invoked, lock) == invoked = {} /\ lock = 0

\* the exchange sends an order event / the next order of the snapshot is due
Arrive ==
    /\ ret.kind = "dispatch"
    /\ ret.arrived < MaxArrivals
    /\ ret' = [ret EXCEPT !.arrived = @ + 1, !.inbox = Append(@, ret.arrived + 1)]
    /\ PureUnchanged

\* the loop takes the oldest event and calls the handler
Deliver ==
    /\ ret.kind = "dispatch"
    /\ ret.inbox # << >>
    /\ deliverer_idle(ret.invoked, ret.lock)
    /\ ret' = [ret EXCEPT !.inbox = Tail(@), !.invoked = @ \cup {Head(ret.inbox)}]
    /\ PureUnchanged

\* with self.ws_lock: (runner.py:269, 322); handle_order_execution starts
Acquire ==
    /\ ret.kind = "dispatch"
    /\ ret.lock = 0
    /\ \E n \in ret.invoked :
          ret' = [ret EXCEPT !.invoked = @ \ {n}, !.lock = n,
                             !.log = Append(@, [op |-> "start", n |-> n])]
    /\ PureUnchanged

\* handle_order_execution returns and the with block releases ws_lock
Release ==
    /\ ret.kind = "dispatch"
    /\ ret.lock # 0
    /\ ret' = [ret EXCEPT !.lock = 0, !.log = Append(@, [op |-> "end", n |-> ret.lock])]
    /\ PureUnchanged

NextDispatch ==
    \/ Arrive
    \/ Deliver
    \/ Acquire
    \/ Release

SpecDispatch == InitDispatch /\ [][NextDispatch]_vars

\* C21: order events are processed one at a time in arrival order: the
\* handling of event n + 1 never starts before the handling of event n has
\* finished, and events are never reordered.
C21_OneAtATimeInOrder ==
    ret.kind = "dispatch" =>
        \A i \in 1..Len(ret.log) :
            ret.log[i] = [op |-> IF i % 2 = 1 THEN "start" ELSE "end", n |-> (i + 1) \div 2]

C21_Witness ==
    /\ ret.kind = "dispatch"
    /\ Len(ret.log) = 3
    /\ ret.lock = 2
    /\ ret.inbox = << 3 >>


\* ------------------------------ the threads that touch self.active_orders
\* events handled by the delivering thread, and statistics rounds of the
\* main loop
MaxHandled == 3
MaxRounds == 2

\* the state of the threads, kept in ret. deliverer is the position of the
\* thread that delivers order events (the simulation thread of test mode,
\* the stream callback of live mode): "idle" outside the with block, "locked"
\* once ws_lock is taken, "marked" after the status of the order was set to
\* Filled.  main is the position of the main thread: "sleeping" in the loop of
\* runner.py:566-575, "count_new" / "count_filled" inside the two counters of
\* get_stats, "scanning" inside the loop of stop(), "stopped" after stop().
Threads(deliverer, handled, lock, main, rounds) ==
    [kind |-> "threads", deliverer |-> deliverer, handled |-> handled, lock |-> lock,
     main |-> main, rounds |-> rounds]

InitThreads ==
    /\ NoEngine
    /\ grid_prices = << >>
    /\ call \in { [fn |-> "main", test_mode |-> m] : m \in BOOLEAN }
    /\ ret = Threads("idle", 0, "free", "sleeping", 0)

\* with self.ws_lock: (runner.py:269, 322)
DelivererLock ==
    /\ ret.kind = "threads"
    /\ ret.deliverer = "idle"
    /\ ret.lock = "free"
    /\ ret.handled < MaxHandled
    /\ ret' = [ret EXCEPT !.deliverer = "locked", !.lock = "deliverer"]
    /\ PureUnchanged

\* test mode: handle_order_execution sets the status of the order to Filled
\* (runner.py:354).  Live mode: the table is empty, no order id is in it and
\* on_order_update handles nothing (runner.py:279-281).
DelivererMark ==
    /\ ret.kind = "threads"
    /\ ret.deliverer = "locked"
    /\ call.test_mode
    /\ ret' = [ret EXCEPT !.deliverer = "marked"]
    /\ PureUnchanged

\* the with block ends: in test mode after add_trade has raised in the
\* simulation thread (runner.py:364, 419-420), in live mode at once
DelivererRelease ==
    /\ ret.kind = "threads"
    /\ \/ ret.deliverer = "marked"
       \/ ret.deliverer = "locked" /\ ~call.test_mode
    /\ ret' = [ret EXCEPT !.deliverer = "idle", !.lock = "free", !.handled = @ + 1]
    /\ PureUnchanged

\* get_stats: get_active_orders_count iterates the table (runner.py:466);
\* it takes no lock
MainCountNew ==
    /\ ret.kind = "threads"
    /\ ret.main = "sleeping"
    /\ ret.rounds < MaxRounds
    /\ ret' = [ret EXCEPT !.main = "count_new"]
    /\ PureUnchanged

\* get_filled_orders_count iterates the table (runner.py:475)
MainCountFilled ==
    /\ ret.kind = "threads"
    /\ ret.main = "count_new"
    /\ ret' = [ret EXCEPT !.main = "count_filled"]
    /\ PureUnchanged

MainStatsDone ==
    /\ ret.kind = "threads"
    /\ ret.main = "count_filled"
    /\ ret' = [ret EXCEPT !.main = "sleeping", !.rounds = @ + 1]
    /\ PureUnchanged

\* a signal: stop() iterates the table in live mode (runner.py:436-443) and
\* does not look at it in test mode (runner.py:448-449); it takes no lock
MainStop ==
    /\ ret.kind = "threads"
    /\ ret.main = "sleeping"
    /\ ret' = [ret EXCEPT !.main = IF call.test_mode THEN "stopped" ELSE "scanning"]
    /\ PureUnchanged

MainScanDone ==
    /\ ret.kind = "threads"
    /\ ret.main = "scanning"
    /\ ret' = [ret EXCEPT !.main = "stopped"]
    /\ PureUnchanged

NextThreads ==
    \/ DelivererLock
    \/ DelivererMark
    \/ DelivererRelease
    \/ MainCountNew
    \/ MainCountFilled
    \/ MainStatsDone
    \/ MainStop
    \/ MainScanDone

SpecThreads == InitThreads /\ [][NextThreads]_vars

\* the main thread is iterating the table
MainReadsTable == ret.main \in {"count_new", "count_filled", "scanning"}
\* the delivering thread is inside a fill handling that changes the table
MutationInProgress == call.test_mode /\ ret.deliverer \in {"locked", "marked"}

\* C31: every mutation of the table happens under mutual exclusion, and no
\* other operation (the cancellation scan of stop(), the statistics counters)
\* reads or iterates the table while a mutation by another thread is in
\* progress.
C31_TableAccessExclusive ==
    ret.kind = "threads" =>
        /\ MutationInProgress => ret.lock = "deliverer"
        /\ ~(MainReadsTable /\ MutationInProgress)


\* ---------------------------------------- claims on start, stop and fills
\* orders the exchange has accepted and that neither were filled nor had a
\* cancel request issued for them
Uncancelled ==
    { k \in DOMAIN exchange : exchange[k].status # "Filled" /\ k \notin cancel_requests }

\* C35: if start() fails with an exception after some ladder orders were
\* accepted by the exchange, the stop() it calls cancels every accepted order
\* before the exception propagates: a failed start leaves no order resting.
C35_FailedStartCancelsLadder ==
    pc = "failed" => Uncancelled = {}

\* C36: once stop() has begun the bot places no new order (a Filled event
\* handled during or after shutdown places no mirror), so when stop() returns
\* every order the bot placed is filled or has had a cancel issued.
C36_NothingRestsAfterStop ==
    [][ /\ pc \in {"stopped", "exited"} => placements' = placements
        /\ pc' \in {"stopped", "exited"} => Uncancelled' = {} ]_vars

\* C39: after any sequence of order events, duplicates included, the number
\* of New orders in the table never exceeds the number of orders placed by
\* the initial ladder.
C39_NewOrdersBounded ==
    pc \in {"running", "stopped"} =>
        Cardinality(NewOrderIds(active_orders)) <= Len(ladder)


\* ------------------------------ the tasks of the stream client
\* connections made in one behaviour, messages received, and error lines
\* counted in the log
MaxStreamConnects == 2
MaxMessages == 2
MaxLoggedErrors == 1

\* a text message of the stream: json is false for a text that json.loads
\* rejects; op, success and topic are "absent" when the key is missing; topic
\* is the leading word of the topic string
Inbound(json, op, success, topic, has_data) ==
    [json |-> json, op |-> op, success |-> success, topic |-> topic, has_data |-> has_data]

InboundMessages ==
    { Inbound(FALSE, "absent", "absent", "absent", FALSE),
      Inbound(TRUE, "ping", "absent", "absent", FALSE),
      Inbound(TRUE, "pong", "absent", "absent", FALSE),
      Inbound(TRUE, "subscribe", "true", "absent", FALSE),
      Inbound(TRUE, "subscribe", "false", "absent", FALSE),
      Inbound(TRUE, "absent", "absent", "order", TRUE),
      Inbound(TRUE, "absent", "absent", "execution", TRUE),
      Inbound(TRUE, "absent", "absent", "ticker", TRUE) }

\* self.handlers after construction (ws_client.py:41-46): four event types,
\* no handler
NoHandlers ==
    [type \in {"order", "execution", "wallet", "position"} |-> << >>]

\* add_handler (ws_client.py:241-244): a new type gets a list, the handler
\* is appended.  A handler is modelled by what a call of it does: "ok" or
\* "raises".
add_handler(handlers, type, handler) ==
    IF type \in DOMAIN handlers
    THEN [handlers EXCEPT ![type] = Append(@, handler)]
    ELSE [t \in DOMAIN handlers \cup {type} |->
             IF t = type THEN <<handler>> ELSE handlers[t]]

HandlerTables ==
    { add_handler(NoHandlers, "order", "ok"),
      add_handler(add_handler(NoHandlers, "order", "ok"), "order", "ok"),
      add_handler(add_handler(NoHandlers, "order", "raises"), "order", "ok"),
      add_handler(add_handler(NoHandlers, "order", "ok"), "execution", "ok"),
      add_handler(NoHandlers, "ticker", "ok") }

\* the chain of startswith tests (ws_client.py:206-214)
event_type(topic) ==
    IF topic = "order" THEN "order"
    ELSE IF topic = "execution" THEN "execution"
    ELSE IF topic = "wallet" THEN "wallet"
    ELSE IF topic = "position" THEN "position"
    ELSE "None"

\* for handler in self.handlers[event_type]: await handler(event_data)
\* (ws_client.py:218-219): the handlers run in list order until one raises
invoke_handlers(hs) ==
    LET raising == { k \in 1..Len(hs) : hs[k] = "raises" }
        stop == IF raising = {} THEN Len(hs)
                ELSE CHOOSE k \in raising : \A j \in raising : k <= j
    IN  [invoked |-> [k \in 1..stop |-> k],
         error |-> IF raising = {} THEN "none" ELSE "handler"]

\* the body of the receive loop for one message (ws_client.py:187-219,
\* ws_client_new.py:193-225): the handlers invoked, and the exception raised
\* inside the inner try, if any
process_message(m, handlers) ==
    IF ~m.json THEN [invoked |-> << >>, error |-> "json"]
    ELSE IF m.op \in {"ping", "pong"} THEN [invoked |-> << >>, error |-> "none"]
    ELSE IF m.success = "false" THEN [invoked |-> << >>, error |-> "none"]
    ELSE IF m.topic # "absent" /\ m.has_data
              /\ event_type(m.topic) # "None" /\ event_type(m.topic) \in DOMAIN handlers
         THEN invoke_handlers(handlers[event_type(m.topic)])
    ELSE [invoked |-> << >>, error |-> "none"]

\* an inner try without except clauses: every exception of the message body
\* gets out
no_except_clause(error) == FALSE

\* except json.JSONDecodeError / except Exception of the inner try
\* (ws_client.py:221-224, ws_client_new.py:226-230)
inner_try_catches(error) == error \in {"json", "handler"}

\* a task of the event loop: pc is the await it is suspended at, cancel is
\* a pending cancel() request, conn the connection a listener reads
Task(k, p, c) == [kind |-> k, pc |-> p, cancel |-> FALSE, conn |-> c]

NoMessage == Inbound(TRUE, "absent", "absent", "absent", FALSE)

\* the last step taken, for the properties
Op(name, t) ==
    [name |-> name, task |-> t, msg |-> NoMessage, invoked |-> << >>, error |-> "none"]

ClosedStates == {"closed_error", "closed_ok"}

TaskLive(task) == task.pc \notin {"done", "cancelled"}

\* task.cancel() on the task a reference names, unless it is done
cancel_task(tasks, ref) ==
    IF ref # 0 /\ TaskLive(tasks[ref])
    THEN [tasks EXCEPT ![ref].cancel = TRUE]
    ELSE tasks

\* connect() (ws_client.py:74-89, ws_client_new.py:77-97) on an endpoint
\* that accepts the connection: the new client also sets is_connected and
\* creates the listener task
connect(s, client) ==
    LET id == Len(s.conns) + 1
        p == Len(s.tasks) + 1
        withPing == Append(s.tasks, Task("ping", "loop", 0))
    IN  IF client = "ws_client"
        THEN [s EXCEPT !.conns = Append(@, "open"), !.ws = id,
                       !.tasks = withPing, !.ping_task = p,
                       !.reconnect_attempts = 0]
        ELSE [s EXCEPT !.conns = Append(@, "open"), !.ws = id,
                       !.is_connected = TRUE,
                       !.tasks = Append(withPing, Task("listen", "recv", id)),
                       !.ping_task = p, !.listen_task = p + 1,
                       !.reconnect_attempts = 0]

\* the head of _try_reconnect (ws_client.py:152-163, ws_client_new.py:
\* 243-253): return at the limit, else count the attempt and sleep
try_reconnect(s, t, client) ==
    LET k == s.tasks[t].kind
        counted == [s EXCEPT !.tries[k] = @ + 1]
    IN  IF s.reconnect_attempts >= max_reconnect_attempts(client)
        THEN [counted EXCEPT !.tasks[t].pc = "done"]
        ELSE [counted EXCEPT !.reconnect_attempts = @ + 1, !.tasks[t].pc = "r_sleep"]

InitStream ==
    /\ NoEngine
    /\ grid_prices = << >>
    /\ call \in { [fn |-> "listen", client |-> c, handlers |-> h] :
                    c \in {"ws_client", "ws_client_new"}, h \in HandlerTables }
    /\ ret = [kind |-> "stream", ws |-> 0, conns |-> << >>, is_connected |-> FALSE,
              reconnect_attempts |-> 0, tasks |-> << Task("main", "start", 0) >>,
              ping_task |-> 0, listen_task |-> 0, received |-> 0, errors |-> 0,
              recv_errors |-> 0, tries |-> [main |-> 0, listen |-> 0, ping |-> 0],
              op |-> Op("none", 0)]

\* await ws.connect(): the caller of the old client goes on into listen()
\* and is its listener; the new client has its own listener task
MainConnect ==
    /\ ret.kind = "stream"
    /\ ret.tasks[1].pc = "start"
    /\ LET s == connect(ret, call.client)
       IN  ret' = [s EXCEPT !.tasks[1] = IF call.client = "ws_client"
                                         THEN Task("listen", "recv", s.ws)
                                         ELSE Task("main", "done", 0),
                            !.op = Op("connect", 1)]
    /\ PureUnchanged

\* the listener receives a message and handles it.  An exception that the
\* inner try does not catch reaches the outer except Exception, which
\* reconnects (ws_client.py:229-231, ws_client_new.py:235-241).
ReceiveMessage(t) ==
    /\ ret.kind = "stream"
    /\ t \in 1..Len(ret.tasks)
    /\ ret.tasks[t].kind = "listen" /\ ret.tasks[t].pc = "recv" /\ ~ret.tasks[t].cancel
    /\ ret.conns[ret.tasks[t].conn] = "open"
    /\ ret.received < MaxMessages
    /\ \E m \in InboundMessages :
         LET d == process_message(m, call.handlers)
             got == [ret EXCEPT !.received = @ + 1,
                                !.op = [name |-> "message", task |-> t, msg |-> m,
                                        invoked |-> d.invoked, error |-> d.error]]
         IN  ret' = IF d.error = "none" THEN got
                    ELSE IF inner_try_catches(d.error)
                    THEN [got EXCEPT !.errors = Min(@ + 1, MaxLoggedErrors)]
                    ELSE try_reconnect([got EXCEPT !.is_connected = FALSE], t, call.client)
    /\ PureUnchanged

\* the listener's receive on a closed connection.  Old client: the async for
\* is outside the inner try; a closure with an error raises ConnectionClosed
\* into the outer except, which reconnects (ws_client.py:226-228), and a
\* normal closure ends the iteration and listen() returns.  New client: recv
\* is inside the inner try, whose except Exception logs ConnectionClosed
\* (ws_client_new.py:229-230); the while is left only once is_connected is
\* false or ws is None, and then _try_reconnect is called (240-241).
ReceiveClosed(t) ==
    /\ ret.kind = "stream"
    /\ t \in 1..Len(ret.tasks)
    /\ ret.tasks[t].kind = "listen" /\ ret.tasks[t].pc = "recv" /\ ~ret.tasks[t].cancel
    /\ ret.conns[ret.tasks[t].conn] \in ClosedStates
    /\ LET raised == [ret EXCEPT !.op = Op("recv_closed", t)]
           logged == [raised EXCEPT !.recv_errors = Min(@ + 1, MaxLoggedErrors)]
       IN  ret' = IF call.client = "ws_client"
                  THEN IF ret.conns[ret.tasks[t].conn] = "closed_error"
                       THEN try_reconnect(raised, t, call.client)
                       ELSE [ret EXCEPT !.tasks[t].pc = "done",
                                        !.op = Op("iteration_ended", t)]
                  ELSE IF ret.is_connected /\ ret.ws # 0
                       THEN logged
                       ELSE IF ~ret.is_connected
                            THEN try_reconnect(logged, t, call.client)
                            ELSE [logged EXCEPT !.tasks[t].pc = "done"]
    /\ PureUnchanged

\* the heartbeat task finds the connection gone.  Old client
\* (ws_client.py:140-150): the loop ends when ws.closed is true; a send that
\* raises while ws.closed is still false reconnects.  New client
\* (ws_client_new.py:166-185): the loop tests the flag, a send that raises
\* clears it and _try_reconnect follows.
PingLoop(t) ==
    /\ ret.kind = "stream"
    /\ t \in 1..Len(ret.tasks)
    /\ ret.tasks[t].kind = "ping" /\ ret.tasks[t].pc = "loop" /\ ~ret.tasks[t].cancel
    /\ IF call.client = "ws_client"
       THEN \/ /\ ret.ws = 0 \/ ret.conns[ret.ws] \in ClosedStates
               /\ ret' = [ret EXCEPT !.tasks[t].pc = "done", !.op = Op("ping_exit", t)]
            \/ /\ ret.ws # 0 /\ ret.conns[ret.ws] = "closing"
               /\ ret' = try_reconnect([ret EXCEPT !.op = Op("ping_failed", t)],
                                       t, call.client)
       ELSE \/ /\ ~(ret.is_connected /\ ret.ws # 0)
               /\ ret' = IF ~ret.is_connected
                         THEN try_reconnect([ret EXCEPT !.op = Op("ping_exit", t)],
                                            t, call.client)
                         ELSE [ret EXCEPT !.tasks[t].pc = "done",
                                          !.op = Op("ping_exit", t)]
            \/ /\ ret.is_connected /\ ret.ws # 0 /\ ret.conns[ret.ws] # "open"
               /\ ret' = try_reconnect([ret EXCEPT !.is_connected = FALSE,
                                                   !.op = Op("ping_failed", t)],
                                       t, call.client)
    /\ PureUnchanged

\* _try_reconnect after its sleep.  Old client (ws_client.py:165-173): close
\* the connection, cancel self.ping_task, go on to connect().  New client
\* (ws_client_new.py:254-259): close() (275-294) clears the flag, cancels
\* self.ping_task and self.listen_task and awaits ws.close(); a task that
\* cancelled itself gets CancelledError at that await, before self.ws is set
\* to None and before connect().
ReconnectWake(t) ==
    /\ ret.kind = "stream"
    /\ t \in 1..Len(ret.tasks)
    /\ ret.tasks[t].pc = "r_sleep" /\ ~ret.tasks[t].cancel
    /\ LET closed == IF ret.ws # 0 /\ ret.conns[ret.ws] \notin ClosedStates
                     THEN [ret.conns EXCEPT ![ret.ws] = "closed_ok"]
                     ELSE ret.conns
           old == [ret EXCEPT !.conns = closed,
                              !.tasks = [cancel_task(ret.tasks, ret.ping_task)
                                            EXCEPT ![t].pc = "r_connect"],
                              !.op = Op("reconnect_wake", t)]
           marked == cancel_task(cancel_task(ret.tasks, ret.ping_task), ret.listen_task)
       IN  ret' = IF call.client = "ws_client" THEN old
                  ELSE IF marked[t].cancel /\ ret.ws # 0
                  THEN [ret EXCEPT !.is_connected = FALSE,
                                   !.tasks = [marked EXCEPT ![t].pc = "cancelled"],
                                   !.op = Op("reconnect_wake", t)]
                  ELSE [ret EXCEPT !.is_connected = FALSE, !.conns = closed, !.ws = 0,
                                   !.tasks = [marked EXCEPT ![t].pc = "r_connect"],
                                   !.op = Op("reconnect_wake", t)]
    /\ PureUnchanged

\* await self.connect() inside _try_reconnect (ws_client.py:173,
\* ws_client_new.py:259); _try_reconnect and its caller then return
ReconnectConnect(t) ==
    /\ ret.kind = "stream"
    /\ t \in 1..Len(ret.tasks)
    /\ ret.tasks[t].pc = "r_connect" /\ ~ret.tasks[t].cancel
    /\ Len(ret.conns) < MaxStreamConnects
    /\ ret' = [connect(ret, call.client) EXCEPT !.tasks[t].pc = "done",
                                                !.op = Op("connect", t)]
    /\ PureUnchanged

\* a task with a pending cancel() gets CancelledError at the await it is
\* suspended at; CancelledError is a BaseException (Python 3.8 and later)
\* and no except clause of the clients catches it
Cancelled(t) ==
    /\ ret.kind = "stream"
    /\ t \in 1..Len(ret.tasks)
    /\ ret.tasks[t].cancel /\ TaskLive(ret.tasks[t])
    /\ ret' = [ret EXCEPT !.tasks[t].pc = "cancelled", !.op = Op("cancelled", t)]
    /\ PureUnchanged

\* the network or the endpoint ends a connection: at once, with or without
\* an error, or through a closing handshake during which ws.closed is false
ConnectionLost ==
    /\ ret.kind = "stream"
    /\ \E c \in 1..Len(ret.conns), how \in {"closing", "closed_error", "closed_ok"} :
          /\ ret.conns[c] = "open"
          /\ ret' = [ret EXCEPT !.conns[c] = how, !.op = Op("lost", 0)]
    /\ PureUnchanged

ClosingDone ==
    /\ ret.kind = "stream"
    /\ \E c \in 1..Len(ret.conns), how \in ClosedStates :
          /\ ret.conns[c] = "closing"
          /\ ret' = [ret EXCEPT !.conns[c] = how, !.op = Op("closed", 0)]
    /\ PureUnchanged

StreamTasks == 1..(1 + 2 * MaxStreamConnects)

TaskStep ==
    \/ MainConnect
    \/ \E t \in StreamTasks : ReceiveMessage(t)
    \/ \E t \in StreamTasks : ReceiveClosed(t)
    \/ \E t \in StreamTasks : PingLoop(t)
    \/ \E t \in StreamTasks : ReconnectWake(t)
    \/ \E t \in StreamTasks : ReconnectConnect(t)
    \/ \E t \in StreamTasks : Cancelled(t)

NextStream ==
    \/ TaskStep
    \/ ConnectionLost
    \/ ClosingDone

SpecStream == InitStream /\ [][NextStream]_vars

\* the event loop runs every task that can run
FairSpecStream == SpecStream /\ WF_vars(TaskStep)


\* ------------------------------ properties of the stream client's tasks
\* C40: an exception raised by a handler, or a message that is not valid
\* JSON, leaves the listener in its receive loop on the same open connection
\* and starts no reconnect: the step that handles such a message changes no
\* task, no connection, and no reconnect counter
C40_ListenerSurvivesBadMessage ==
    [][ (ret'.kind = "stream" /\ ret'.op.name = "message"
            /\ ret'.op.error \in {"json", "handler"})
        => /\ ret'.tasks = ret.tasks
           /\ ret'.tasks[ret'.op.task].pc = "recv"
           /\ ret'.conns = ret.conns
           /\ ret'.ws = ret.ws
           /\ ret'.conns[ret'.tasks[ret'.op.task].conn] = "open"
           /\ ret'.tries = ret.tries
           /\ ret'.reconnect_attempts = ret.reconnect_attempts ]_vars

\* an error was caught and logged earlier, and a later data envelope has
\* been dispatched to a handler by the same listener
C40_Witness ==
    /\ ret.kind = "stream"
    /\ ret.errors > 0
    /\ ret.op.name = "message"
    /\ ret.op.error = "none"
    /\ ret.op.invoked # << >>

\* C34: a data envelope whose topic starts with a registered event type has
\* every handler of that type invoked once, in registration order; a
\* heartbeat or a control ack invokes no handler
C34_EveryHandlerOnceInOrder ==
    (ret.kind = "stream" /\ ret.op.name = "message" /\ ret.op.msg.json)
    => /\ (\/ ret.op.msg.op \in {"ping", "pong"}
           \/ ret.op.msg.success # "absent" /\ ret.op.msg.topic = "absent")
          => ret.op.invoked = << >>
       /\ (/\ ret.op.msg.topic # "absent"
           /\ ret.op.msg.has_data
           /\ ret.op.msg.topic \in DOMAIN call.handlers)
          => ret.op.invoked = [k \in 1..Len(call.handlers[ret.op.msg.topic]) |-> k]

\* C33: when the listener's receive fails with connection-closed, the
\* listener marks the client disconnected, leaves the receive loop and
\* invokes the reconnect procedure once
C33_ListenerReconnectsOnce ==
    [][ (ret'.kind = "stream" /\ ret'.op.name = "recv_closed")
        => /\ call.client = "ws_client_new" => ~ret'.is_connected
           /\ ret'.tasks[ret'.op.task].pc # "recv"
           /\ ret'.tries.listen = ret.tries.listen + 1 ]_vars

ReconnectsInProgress ==
    { t \in 1..Len(ret.tasks) :
        ret.tasks[t].pc \in {"r_sleep", "r_connect"} /\ ~ret.tasks[t].cancel }

Listeners ==
    { t \in 1..Len(ret.tasks) :
        ret.tasks[t].kind = "listen" /\ ret.tasks[t].pc = "recv" /\ ~ret.tasks[t].cancel }

Heartbeats ==
    { t \in 1..Len(ret.tasks) :
        ret.tasks[t].kind = "ping" /\ ret.tasks[t].pc = "loop" /\ ~ret.tasks[t].cancel }

\* C38: at most one reconnect procedure is in progress, and at most one
\* listener and one heartbeat task exist
C38_OneReconnectAtATime ==
    ret.kind = "stream"
    => /\ Cardinality(ReconnectsInProgress) <= 1
       /\ Cardinality(Listeners) <= 1
       /\ Cardinality(Heartbeats) <= 1

DisconnectionDetected ==
    /\ ret.kind = "stream"
    /\ Len(ret.conns) < MaxStreamConnects
    /\ ret.reconnect_attempts <= max_reconnect_attempts(call.client)
    /\ \E t \in 1..Len(ret.tasks) : ret.tasks[t].pc = "r_sleep"

Reconnected ==
    /\ ret.ws # 0
    /\ ret.conns[ret.ws] = "open"
    /\ \E t \in Listeners : ret.tasks[t].conn = ret.ws
    /\ Heartbeats # {}

\* C37: once a disconnection is detected, with attempts left and an endpoint
\* that accepts connections, the client eventually holds a new open
\* connection with a listener reading it and a heartbeat task
C37_ReconnectCompletes == DisconnectionDetected ~> Reconnected

=============================================================================
